---- MODULE Spec2Model ----
(***************************************************************************)
(* Conversation orchestration engine of nono-labs-service.                 *)
(*                                                                         *)
(* The model follows ConversationOrchestratorService.handleIncomingMessage *)
(* and generateAndSendResponse, OpenAIService.generateChatCompletion /     *)
(* buildContext / handleToolCall, MCPAdapterService, MCPClientService      *)
(* .callTool and TelegramChannelService.receiveMessage / sendMessage.      *)
(* Every await on a collaborator (persistence, channel adapter, completion *)
(* backend, tool server) is one atomic step of a task; the Telegram bot    *)
(* manager registers an async 'message' listener, so several tasks are in  *)
(* flight at once and interleave at those steps.                           *)
(***************************************************************************)
EXTENDS Integers, Sequences, FiniteSets, TLC

\* ---------------------------------------------------------------- bounds

\* Number of inbound events delivered (one handleIncomingMessage task each).
MaxTasks == 2
\* Largest number of tool calls in one completion response.
MaxToolCalls == 2
\* Number of collaborator calls that fail (persistence, backend, tool server, channel).
MaxFaults == 1
\* Largest number of virtual agents of the tenant.
MaxAgents == 2
\* Number of concurrent callers of the tool-server connection methods.
MaxCallers == 2
\* Number of calls of those methods.
MaxInvocations == 3
\* Largest number of messages stored for a conversation before a generation.
MaxStored == 3

\* ------------------------------------------------------- program constants

\* generateAndSendResponse: contextLimit: channel.maxContextMessages || 20
DefaultContextLimit == 20

Tasks == 1..MaxTasks

\* ------------------------------------------------------------- JS values

\* An optional string: present = FALSE is undefined; text is a token sequence.
Undefined == [present |-> FALSE, text |-> <<>>]
Str(toks) == [present |-> TRUE, text |-> toks]
\* JavaScript truthiness of an optional string: undefined and '' are falsy.
Truthy(s) == s.present /\ s.text # <<>>
\* s || dflt
OrElse(s, dflt) == IF Truthy(s) THEN s ELSE dflt
\* content?.includes(token): undefined when content is undefined, so falsy.
Includes(s, token) == s.present /\ \E k \in 1..Len(s.text) : s.text[k] = token

NoAgent == "none"

\* ---------------------------------------------------------- configuration

ChannelId == "C1"

\* EncryptionService.encrypt / decrypt: the ciphertext is not the plaintext, and
\* decrypt gives the plaintext back.
Encrypt(plaintext) == <<"aes-256", plaintext>>
Decrypt(encryptedData) == encryptedData[2]

\* ChannelsService.encryptSensitiveConfig: the config as ChannelsService.create
\* stores it, for a channel created with the bot token "token".
StoredConfig == [apiToken |-> Encrypt("token")]

\* The channel document read by channelsService.findOne (findByIdOrFail: the
\* document as stored).
Channel(defaultVirtualAgentId) ==
  [name |-> "bot", type |-> "telegram", defaultVirtualAgentId |-> defaultVirtualAgentId,
   maxContextMessages |-> 0, config |-> StoredConfig]

\* A virtual agent document: its id and its status (VirtualAgentStatus).
Agent(id, status) == [id |-> id, status |-> status]
\* The deployments: the channel document and the tenant's virtual agents, as
\* virtualAgentsService.findAll returns them.
Deployments ==
  { [channel |-> Channel(NoAgent), agents |-> <<>>],
    [channel |-> Channel("A1"), agents |-> << Agent("A2", "active") >>] }

\* ------------------------------------------------------------ raw events

\* Telegram chats: a private chat and a group.
PrivateChat == [id |-> "U1", type |-> "private"]
GroupChat == [id |-> "G1", type |-> "group"]

\* The payload part of a Telegram message: a text, a text that mentions the
\* channel, a voice message (no text, one attachment).
Text == [text |-> Str(<<"hi">>), photo |-> FALSE, voice |-> FALSE]
Mention == [text |-> Str(<<"@bot", "hi">>), photo |-> FALSE, voice |-> FALSE]
Voice == [text |-> Undefined, photo |-> FALSE, voice |-> TRUE]

TelegramMessage(chat, from, m, payload) ==
  [chat |-> chat, from |-> from, message_id |-> m, payload |-> payload]

\* event.message with message id m: user a writes in the private chat, users a
\* and b write in the group.
TelegramMessages(m) ==
  { TelegramMessage(PrivateChat, "a", m, Text),
    TelegramMessage(GroupChat, "a", m, Text),
    TelegramMessage(GroupChat, "a", m, Mention),
    TelegramMessage(GroupChat, "b", m, Mention),
    TelegramMessage(GroupChat, "b", m, Voice) }

\* An event either carries a message or not (event.message || event.edited_message).
NoMessage == [chat |-> [id |-> "", type |-> ""], from |-> "", message_id |-> 0,
              payload |-> [text |-> Undefined, photo |-> FALSE, voice |-> FALSE]]
NoEvent == [hasMessage |-> FALSE, message |-> NoMessage]
\* The events the m-th delivery may carry: a new message (Telegram numbers the
\* messages, so it carries a fresh id), an update without message, or the
\* redelivery of an event delivered before (earlier).
Events(m, earlier) ==
  { [hasMessage |-> TRUE, message |-> t] : t \in TelegramMessages(m) }
  \cup { NoEvent } \cup earlier

\* ------------------------------------------------------------- variables

VARIABLES
  channel,        \* the channel document
  agents,         \* the tenant's virtual agents
  conversations,  \* Conversation collection, _id = index
  messages,       \* Message collection: per conversation, its messages in
                  \* createdAt order; a message's _id is its position there
  task,           \* per handleIncomingMessage invocation: locals and position
  faults,         \* number of collaborator calls that have failed
  mcp,            \* MCPClientService: clients, tools, and the calls in flight
  gen             \* one generateChatCompletion invocation: locals and position

vars == <<channel, agents, conversations, messages, task, faults, mcp, gen>>

\* ------------------------------------------------------------- errors

\* BaseChannelService.handleError: throw new Error(`${operation} failed: ...`)
HandleErrorAsGeneration(operation) == "Failed to generate AI response"
handleError(operation) == operation \o " failed"
\* generateChatCompletion's catch: throw new Error(`Failed to generate AI response: ...`)
GenerationError == "Failed to generate AI response"
\* MongoDB E11000 on the unique index
DuplicateKeyError == "E11000 duplicate key"
\* any other failure of a persistence call
PersistenceError == "persistence error"
NotFoundError == "NotFoundException"

\* --------------------------------------------- TelegramChannelService

\* receiveMessage: the normalized message for an event that carries a message.
receiveMessage(ev) ==
  LET message == ev.message
      p == message.payload
      \* if (message.text) { content = text; type = 'text' }
      r1 == IF Truthy(p.text)
            THEN [content |-> p.text, type |-> "text", attachments |-> 0]
            ELSE [content |-> Undefined, type |-> "undefined", attachments |-> 0]
      \* if (message.photo) { attachments = [...]; type = 'image'; content = caption || '' }
      r2 == IF p.photo
            THEN [content |-> Str(<<>>), type |-> "image", attachments |-> 1]
            ELSE r1
      \* if (message.voice || message.audio) { attachments = [...]; type = 'voice' }
      r3 == IF p.voice
            THEN [r2 EXCEPT !.type = "voice", !.attachments = 1]
            ELSE r2
  IN [externalChannelId |-> message.chat.id,
      authorId |-> message.from,
      authorName |-> message.from,
      externalMessageId |-> message.message_id,
      chatType |-> message.chat.type,
      content |-> r3.content,
      type |-> r3.type,
      attachments |-> r3.attachments]

NoParsedMessage ==
  [externalChannelId |-> "", authorId |-> "", authorName |-> "",
   externalMessageId |-> 0, chatType |-> "", content |-> Undefined,
   type |-> "undefined", attachments |-> 0]

\* --------------------------------------------- orchestrator: pure helpers

\* mapMessageType(parsedMessage.type || 'text')
mapMessageType(type) ==
  LET t == IF type = "undefined" THEN "text" ELSE type
  IN IF t \in {"text", "image", "audio", "voice", "video", "document",
               "sticker", "location", "command", "system"}
     THEN t ELSE "text"

getConversationTypeGroup(chatType) == "group"
\* getConversationType(parsedMessage.metadata?.chatType)
getConversationType(chatType) ==
  CASE chatType = "private" -> "private"
    [] chatType = "group" -> "group"
    [] chatType = "supergroup" -> "group"
    [] chatType = "channel" -> "channel"
    [] OTHER -> "private"

\* getDefaultVirtualAgentForChannel: agents[0] of findAll(tenantId), else undefined
getDefaultVirtualAgentForChannel(as) ==
  IF Len(as) > 0 THEN as[1].id ELSE NoAgent

\* channel.defaultVirtualAgentId || (await getDefaultVirtualAgentForChannel(...))
ResolveVirtualAgent(ch, as) ==
  IF ch.defaultVirtualAgentId # NoAgent
  THEN ch.defaultVirtualAgentId
  ELSE getDefaultVirtualAgentForChannel(as)

\* ------------------------------------------------ conversation store

NoConversation ==
  [id |-> 0, channelId |-> "", externalChannelId |-> "", virtualAgentId |-> NoAgent,
   type |-> "private", status |-> "open", participants |-> <<>>, messageCount |-> 0]

\* ConversationRepository.findByExternalId: findOne({tenantId, channelId, externalChannelId})
findByExternalId(channelId, externalChannelId) ==
  LET hits == { c \in 1..Len(conversations) :
                  /\ conversations[c].channelId = channelId
                  /\ conversations[c].externalChannelId = externalChannelId }
  IN IF hits = {} THEN NoConversation
     ELSE conversations[CHOOSE c \in hits : \A d \in hits : c <= d]

\* ConversationSchema.index({channelId: 1, externalChannelId: 1}, {unique: true}):
\* an insert is rejected when a document with the same pair exists.
NoUniqueIndex(channelId, externalChannelId) == FALSE
UniqueIndexRejects(channelId, externalChannelId) ==
  \E c \in 1..Len(conversations) :
    /\ conversations[c].channelId = channelId
    /\ conversations[c].externalChannelId = externalChannelId

\* ------------------------------------------------------------ task state

NoResponse == [content |-> Undefined, toolCalls |-> <<>>, finishReason |-> "none"]

IdleTask ==
  [pc |-> "idle",
   event |-> NoEvent,
   parsedMessage |-> NoParsedMessage,
   conversation |-> NoConversation,   \* the document findByExternalId / create returned
   userMessageId |-> 0,               \* userMessage._id
   lastUserMessage |-> 0,             \* _id of the message generateAndSendResponse answers
   context |-> <<>>,                  \* messages of generateChatCompletion
   aiResponse |-> NoResponse,
   agentMessageId |-> 0,              \* agentMessage._id
   result |-> "none",                 \* "ok" (returned) or the error thrown to the caller
   \* bookkeeping for the properties, not program state:
   created |-> FALSE,                 \* this task inserted the conversation
   joined |-> FALSE,                  \* this task's participant update was applied
   completionCalls |-> 0,             \* client.chat.completions.create calls
   toolRounds |-> 0,                  \* responses whose tool calls were taken up
   channelConfig |-> <<>>,            \* the config handed to the channel adapter
   sends |-> 0,                       \* channelService.sendMessage calls
   fault |-> "none"]                  \* the collaborator call that failed, if any

\* The invocation ends: it throws err towards its caller, or returns. The locals
\* of generateAndSendResponse and generateChatCompletion are gone with their frames.
NeverSettled(t) == [t EXCEPT !.pc = "pending", !.context = <<>>, !.aiResponse = NoResponse]
Dropped(t) == [t EXCEPT !.pc = "done", !.context = <<>>, !.aiResponse = NoResponse]
ThrowSwallowed(t, err) == [Dropped(t) EXCEPT !.result = "ok"]
Throw(t, err) == [Dropped(t) EXCEPT !.result = err]
Return(t) == [Dropped(t) EXCEPT !.result = "ok"]
\* A collaborator call fails at step `where` and the error err reaches the caller.
Fail(t, where, err) == Throw([t EXCEPT !.fault = where], err)

\* ------------------------------------------- handleIncomingMessage

\* Lines 43-53 for the event ev: channelsService.findOne, then receiveMessage is
\* called with channel.config. An event without message makes it throw (handleError).
Received(t, ev, ch) ==
  LET called == [t EXCEPT !.event = ev, !.channelConfig = ch.config]
  IN IF ev.hasMessage
     THEN [called EXCEPT !.pc = "findConversation", !.parsedMessage = receiveMessage(ev)]
     ELSE Throw(called, handleError("receiveMessage"))

\* Events are numbered in delivery order: task i handles the i-th event.
ReceiveMessage(i) ==
  /\ task[i].pc = "idle"
  /\ \A j \in 1..(i-1) : task[j].pc # "idle"
  /\ \E ev \in Events(i, { task[j].event : j \in 1..(i-1) }) :
       task' = [task EXCEPT ![i] = Received(@, ev, channel)]
  /\ UNCHANGED <<mcp, gen, channel, agents, conversations, messages, faults>>

NeedsParticipantInGroup(conv, parsed) == conv.type = "group"
\* addParticipantIfNew, lines 334-338: the update is needed when the sender is
\* not among the participants of the document read and the conversation is a group.
NeedsParticipant(conv, parsed) ==
  /\ ~ \E p \in 1..Len(conv.participants) : conv.participants[p] = parsed.authorId
  /\ conv.type = "group"

\* Lines 60-67 and 98-101: findByExternalId, then the branch taken.
FindConversation(i) ==
  /\ task[i].pc = "findConversation"
  /\ LET found == findByExternalId(ChannelId, task[i].parsedMessage.externalChannelId)
     IN task' = [task EXCEPT ![i] =
          [@ EXCEPT !.conversation = found,
                    !.pc = IF found.id = 0 THEN "createConversation"
                           ELSE IF NeedsParticipant(found, task[i].parsedMessage)
                                THEN "addParticipant"
                                ELSE "saveUserMessage"]]
  /\ UNCHANGED <<mcp, gen, channel, agents, conversations, messages, faults>>

\* The find fails (persistence error): the catch of line 145 rethrows.
FindConversationFails(i) ==
  /\ task[i].pc = "findConversation"
  /\ faults < MaxFaults
  /\ faults' = faults + 1
  /\ task' = [task EXCEPT ![i] = Fail(@, "findConversation", PersistenceError)]
  /\ UNCHANGED <<mcp, gen, channel, agents, conversations, messages>>

\* Lines 72-93: the document conversationsService.create inserts.
NewConversation(id, parsed, ch, as) ==
  [id |-> id,
   channelId |-> ChannelId,
   externalChannelId |-> parsed.externalChannelId,
   virtualAgentId |-> ResolveVirtualAgent(ch, as),
   type |-> getConversationType(parsed.chatType),
   status |-> "open",
   participants |-> <<parsed.authorId>>,
   messageCount |-> 0]

\* conversationsService.create: the unique index rejects a second document for
\* the pair, and the error reaches the caller through the catch of line 145.
CreateConversation(i) ==
  /\ task[i].pc = "createConversation"
  /\ LET parsed == task[i].parsedMessage
         doc == NewConversation(Len(conversations) + 1, parsed, channel, agents)
     IN IF UniqueIndexRejects(ChannelId, parsed.externalChannelId)
        THEN /\ task' = [task EXCEPT ![i] = Throw(@, DuplicateKeyError)]
             /\ UNCHANGED <<conversations, messages>>
        ELSE /\ conversations' = Append(conversations, doc)
             /\ messages' = Append(messages, <<>>)
             /\ task' = [task EXCEPT ![i] =
                  [@ EXCEPT !.conversation = doc, !.created = TRUE,
                            !.pc = "saveUserMessage"]]
  /\ UNCHANGED <<mcp, gen, channel, agents, faults>>

CreateConversationFails(i) ==
  /\ task[i].pc = "createConversation"
  /\ faults < MaxFaults
  /\ faults' = faults + 1
  /\ task' = [task EXCEPT ![i] = Fail(@, "createConversation", PersistenceError)]
  /\ UNCHANGED <<mcp, gen, channel, agents, conversations, messages>>

\* addParticipantIfNew, lines 344-356: the whole list read earlier plus the
\* sender is written back.
AddParticipant(i) ==
  /\ task[i].pc = "addParticipant"
  /\ LET conv == task[i].conversation
         updatedParticipants == Append(conv.participants, task[i].parsedMessage.authorId)
     IN conversations' = [conversations EXCEPT ![conv.id].participants = updatedParticipants]
  /\ task' = [task EXCEPT ![i] = [@ EXCEPT !.joined = TRUE, !.pc = "saveUserMessage"]]
  /\ UNCHANGED <<mcp, gen, channel, agents, messages, faults>>

AddParticipantFailsAborts(i) ==
  /\ task[i].pc = "addParticipant"
  /\ faults < MaxFaults
  /\ faults' = faults + 1
  /\ task' = [task EXCEPT ![i] = Fail(@, "addParticipant", PersistenceError)]
  /\ UNCHANGED <<mcp, gen, channel, agents, conversations, messages>>

\* Lines 358-363: a failed update is logged and swallowed.
AddParticipantFails(i) ==
  /\ task[i].pc = "addParticipant"
  /\ faults < MaxFaults
  /\ faults' = faults + 1
  /\ task' = [task EXCEPT ![i] = [@ EXCEPT !.fault = "addParticipant",
                                           !.pc = "saveUserMessage"]]
  /\ UNCHANGED <<mcp, gen, channel, agents, conversations, messages>>

\* Line 128: conversation.status === OPEN && conversation.virtualAgentId
RespondsAlways(conv) == conv.virtualAgentId # NoAgent
ShouldRespond(conv) == conv.status = "open" /\ conv.virtualAgentId # NoAgent

\* Line 130: a group message that does not contain `@${channel.name}` is not answered.
NeverUnaddressed(conv, parsed, ch) == FALSE
Unaddressed(conv, parsed, ch) ==
  conv.type = "group" /\ ~ Includes(parsed.content, "@" \o ch.name)

\* Lines 104-114: the user message messagesService.create inserts
\* (MessageRepository.create: a plain save, no lookup by externalMessageId).
UserMessage(conv, parsed) ==
  [conversationId |-> conv.id,
   type |-> mapMessageType(parsed.type),
   authorRole |-> "user",
   authorId |-> parsed.authorId,
   authorName |-> parsed.authorName,
   content |-> parsed.content,
   attachments |-> parsed.attachments,
   externalMessageId |-> parsed.externalMessageId,
   toolCalls |-> <<>>]

\* Lines 104-144: save the user message, then decide whether to answer.
SaveUserMessage(i) ==
  /\ task[i].pc = "saveUserMessage"
  /\ LET conv == task[i].conversation
         parsed == task[i].parsedMessage
         saved == [task[i] EXCEPT !.userMessageId = Len(messages[conv.id]) + 1]
     IN /\ messages' = [messages EXCEPT ![conv.id] = Append(@, UserMessage(conv, parsed))]
        /\ task' = [task EXCEPT ![i] =
             IF ShouldRespond(conv)
             THEN IF Unaddressed(conv, parsed, channel)
                  THEN Return(saved)
                  ELSE [saved EXCEPT !.pc = "findLastMessage"]
             ELSE Return(saved)]
  /\ UNCHANGED <<mcp, gen, channel, agents, conversations, faults>>

SaveUserMessageFails(i) ==
  /\ task[i].pc = "saveUserMessage"
  /\ faults < MaxFaults
  /\ faults' = faults + 1
  /\ task' = [task EXCEPT ![i] = Fail(@, "saveUserMessage", PersistenceError)]
  /\ UNCHANGED <<mcp, gen, channel, agents, conversations, messages>>

\* ------------------------------------------------- MCP tool routing

Mcp == <<"m", "c", "p", "_">>
\* convertMCPToolsToOpenAIFormat: name: `mcp_${serverName}_${name}`
McpFunctionName(serverName, toolName) == Mcp \o serverName \o <<"_">> \o toolName

\* isMCPToolCall: toolCallName.startsWith('mcp_')
isMCPToolCall(name) == Len(name) >= 4 /\ SubSeq(name, 1, 4) = Mcp

\* extractMCPInvocation: toolCallName.match(/^mcp_([^_]+)_(.+)$/); the server name
\* is the run of non-underscore characters after the prefix. matched = FALSE is null.
extractMCPInvocation(name) ==
  LET rest == IF isMCPToolCall(name) THEN SubSeq(name, 5, Len(name)) ELSE <<>>
      cuts == { c \in 1..Len(rest) : rest[c] = "_" }
      cut == IF cuts = {} THEN 0 ELSE CHOOSE c \in cuts : \A d \in cuts : c <= d
  IN IF isMCPToolCall(name) /\ cut > 1 /\ cut < Len(rest)
     THEN [matched |-> TRUE, serverName |-> SubSeq(rest, 1, cut - 1),
           toolName |-> SubSeq(rest, cut + 1, Len(rest))]
     ELSE [matched |-> FALSE, serverName |-> <<>>, toolName |-> <<>>]

\* JSON.parse(toolCallArguments) succeeds
JsonValid(arguments) == arguments = "{}"

\* MCPClientService.clients: the servers a client is connected to.
ConnectedServers == { <<"s">> }

\* The tool calls a completion response may carry (id is filled in per position).
ToolCallChoices ==
  { [name |-> McpFunctionName(<<"s">>, <<"t">>), arguments |-> "{}"],
    [name |-> McpFunctionName(<<"d">>, <<"t">>), arguments |-> "{}"],
    [name |-> <<"f">>, arguments |-> "{}"] }
ToolCallLists ==
  UNION { [1..n -> ToolCallChoices] : n \in 0..MaxToolCalls }

\* handleToolCall without the call to the server: "call" when the tool server is
\* called, "throw" when the call raises before that (malformed arguments, server
\* not connected: callTool line 425), "notfound" for the placeholder of line 442.
handleToolCall(tc) ==
  LET inv == extractMCPInvocation(tc.name)
  IN IF isMCPToolCall(tc.name) /\ inv.matched
     THEN IF ~ JsonValid(tc.arguments) THEN "throw"
          ELSE IF inv.serverName \in ConnectedServers THEN "call" ELSE "throw"
     ELSE "notfound"

\* --------------------------------------------------- MessageRepository

\* findByConversation(conversationId, limit): the ids of the conversation's
\* messages, newest first (sort createdAt: -1), at most limit of them.
findByConversation(conversationId, limit) ==
  LET count == Len(messages[conversationId])
      found == IF limit < count THEN limit ELSE count
  IN [n \in 1..found |-> count + 1 - n]

ReverseKept(seq) == seq
\* Array.prototype.reverse
Reverse(seq) == [n \in 1..Len(seq) |-> seq[Len(seq) + 1 - n]]

\* -------------------------------------------------------- buildContext

\* agent.configParams?.systemPrompt
SystemPrompt(agentId) == IF agentId = "A1" THEN Str(<<"sys">>) ELSE Undefined

\* channel.maxContextMessages || 20
ContextLimit(ch) ==
  IF ch.maxContextMessages = 0 THEN DefaultContextLimit ELSE ch.maxContextMessages

Entry(role, content, blocks, id) ==
  [role |-> role, content |-> content, blocks |-> blocks,
   tool_calls |-> <<>>, tool_call_id |-> 0, id |-> id]

\* Lines 123-220 for one stored message: the entries it contributes (none or one).
\* media is the set of messages whose attachment processMedia turns into a block
\* (for the others it returns null or throws, and the attachment is skipped).
ContextEntries(conversationId, id, media) ==
  LET msg == messages[conversationId][id]
      textBlocks == IF Truthy(msg.content) THEN 1 ELSE 0
      mediaBlocks == IF id \in media THEN msg.attachments ELSE 0
      \* `@${msg.authorName}: ${msg.content}`
      formatted == Str(<<"@" \o msg.authorName \o ":">> \o msg.content.text)
      \* an audio attachment becomes a text block, an image an image_url block
      transcript == Str(<<"[Transcripcion de audio]:">>)
      audio == msg.type \in {"audio", "voice"}
  IN IF msg.authorRole = "agent"
     THEN << [Entry("assistant", msg.content, 0, id) EXCEPT !.tool_calls = msg.toolCalls] >>
     ELSE IF textBlocks + mediaBlocks = 0 THEN <<>>
     ELSE IF textBlocks = 1 /\ mediaBlocks = 0 THEN << Entry("user", formatted, 0, id) >>
     ELSE IF textBlocks = 0 /\ mediaBlocks = 1 /\ audio
          THEN << Entry("user", transcript, 0, id) >>
     ELSE << Entry("user", IF textBlocks = 1 THEN formatted ELSE Undefined,
                   textBlocks + mediaBlocks, id) >>

RECURSIVE Flatten(_)
Flatten(seqs) == IF seqs = <<>> THEN <<>> ELSE Head(seqs) \o Flatten(Tail(seqs))

\* buildContext: the system prompt, then the entries of the `limit` most recent
\* messages in chronological order.
buildContext(conversationId, systemPrompt, limit, media) ==
  LET ids == Reverse(findByConversation(conversationId, limit))
  IN (IF Truthy(systemPrompt) THEN << Entry("system", systemPrompt, 0, 0) >> ELSE <<>>)
     \o Flatten([n \in 1..Len(ids) |-> ContextEntries(conversationId, ids[n], media)])

\* Lines 274-280: the user message is appended unless the last entry is a user
\* entry whose content is that very string.
WithUserMessage(ctx, userMessage) ==
  LET lastMessage == IF ctx = <<>> THEN Entry("none", Undefined, 0, 0) ELSE ctx[Len(ctx)]
  IN IF ctx = <<>> \/ lastMessage.role # "user" \/ lastMessage.blocks > 0
        \/ lastMessage.content # userMessage
     THEN Append(ctx, Entry("user", userMessage, 0, 0))
     ELSE ctx

HandleIncomingMessage(i) ==
  \/ ReceiveMessage(i)
  \/ FindConversation(i) \/ FindConversationFails(i)
  \/ CreateConversation(i) \/ CreateConversationFails(i)
  \/ AddParticipant(i) \/ AddParticipantFails(i)
  \/ SaveUserMessage(i) \/ SaveUserMessageFails(i)

\* ------------------------------------------ generateAndSendResponse

\* Lines 163-186: the most recent message of the conversation; without text
\* content there is nothing to answer.
AlwaysSomethingToAnswer(conversationId, found) == found = <<>>
NothingToAnswer(conversationId, found) ==
  found = <<>> \/ ~ Truthy(messages[conversationId][found[1]].content)

FindLastMessage(i) ==
  /\ task[i].pc = "findLastMessage"
  /\ LET conv == task[i].conversation
         found == findByConversation(conv.id, 1)
     IN task' = [task EXCEPT ![i] =
          IF NothingToAnswer(conv.id, found)
          THEN Return(@)
          ELSE [@ EXCEPT !.lastUserMessage = found[1], !.pc = "buildContext"]]
  /\ UNCHANGED <<mcp, gen, channel, agents, conversations, messages, faults>>

FindLastMessageFails(i) ==
  /\ task[i].pc = "findLastMessage"
  /\ faults < MaxFaults
  /\ faults' = faults + 1
  /\ task' = [task EXCEPT ![i] = Fail(@, "findLastMessage", PersistenceError)]
  /\ UNCHANGED <<mcp, gen, channel, agents, conversations, messages>>

\* Messages of a conversation that carry an attachment.
WithAttachment(conversationId) ==
  { id \in 1..Len(messages[conversationId]) :
      messages[conversationId][id].attachments > 0 }

\* Lines 191-280: virtualAgentsService.findOne, getProvider, getOpenAIClient (the
\* agent document and its key are configuration no step of the model writes),
\* then buildContext and the append of the user message.
BuildContext(i) ==
  /\ task[i].pc = "buildContext"
  /\ \E media \in SUBSET WithAttachment(task[i].conversation.id) :
       LET conv == task[i].conversation
           ctx == buildContext(conv.id, SystemPrompt(conv.virtualAgentId),
                               ContextLimit(channel), media)
       IN task' = [task EXCEPT ![i] =
            [@ EXCEPT !.context =
                        WithUserMessage(ctx, messages[conv.id][task[i].lastUserMessage].content),
                      !.pc = "completion"]]
  /\ UNCHANGED <<mcp, gen, channel, agents, conversations, messages, faults>>

\* virtualAgentsService.findOne of line 191 throws NotFoundException.
FindAgentFails(i) ==
  /\ task[i].pc = "buildContext"
  /\ faults < MaxFaults
  /\ faults' = faults + 1
  /\ task' = [task EXCEPT ![i] = Fail(@, "findAgent", NotFoundError)]
  /\ UNCHANGED <<mcp, gen, channel, agents, conversations, messages>>

\* getOpenAIClient or the find of buildContext fails inside the try of line 257.
BuildContextFails(i) ==
  /\ task[i].pc = "buildContext"
  /\ faults < MaxFaults
  /\ faults' = faults + 1
  /\ task' = [task EXCEPT ![i] = Fail(@, "buildContext", GenerationError)]
  /\ UNCHANGED <<mcp, gen, channel, agents, conversations, messages>>

CompletionContents == { Str(<<"reply">>), Undefined }

\* The tool calls of a response, with the ids the backend gives them.
WithIds(tcs) ==
  [n \in 1..Len(tcs) |-> [id |-> n, name |-> tcs[n].name, arguments |-> tcs[n].arguments]]

\* The first tool call whose handling throws, 0 when none does: a call throws
\* when handleToolCall throws by itself, or when it is the call raiseAt, on which
\* the tool server raises (callTool line 448, rethrown by executeMCPInvocation
\* line 174).
FirstThrow(tcs, raiseAt) ==
  LET throwing == { n \in 1..Len(tcs) :
                      \/ handleToolCall(tcs[n]) = "throw"
                      \/ handleToolCall(tcs[n]) = "call" /\ n = raiseAt }
  IN IF throwing = {} THEN 0 ELSE CHOOSE n \in throwing : \A m \in throwing : n <= m

\* Lines 333-359: after the tool results the backend is called once more and
\* that response is returned; its tool calls, if any, are not looked at.
CallsAfterToolsChained(hasToolCalls) == IF hasToolCalls THEN 2 ELSE 1
CallsAfterTools(hasToolCalls) == 1

\* Lines 346-358 and 361-382: the response returned to the orchestrator; the
\* finish reason is the one of the response returned ('tool_calls' when it carries
\* tool calls).
FinalResponse(t, content, finishReason) ==
  [t EXCEPT !.aiResponse = [content |-> content, toolCalls |-> <<>>,
                            finishReason |-> finishReason],
            !.context = <<>>, !.pc = "saveAgentMessage"]

\* generateChatCompletion from line 292 on. The calls to the completion backend
\* and to the tool servers touch nothing the tasks share, so the whole loop is
\* one step: the first call (line 292), the tool calls in array order (line 319)
\* and the second call (line 334).

\* The first response carries no tool calls.
Completion(i) ==
  /\ task[i].pc = "completion"
  /\ \E content \in CompletionContents :
       task' = [task EXCEPT ![i] =
         FinalResponse([@ EXCEPT !.completionCalls = @ + 1], content, "stop")]
  /\ UNCHANGED <<mcp, gen, channel, agents, conversations, messages, faults>>

\* The first call fails: the catch of line 383 wraps the error.
CompletionFails(i) ==
  /\ task[i].pc = "completion"
  /\ faults < MaxFaults
  /\ faults' = faults + 1
  /\ task' = [task EXCEPT ![i] =
       Fail([@ EXCEPT !.completionCalls = @ + 1], "completion", GenerationError)]
  /\ UNCHANGED <<mcp, gen, channel, agents, conversations, messages>>

\* The first response carries tool calls, every call is handled, and the second
\* response arrives.
CompletionWithTools(i) ==
  /\ task[i].pc = "completion"
  /\ \E tcs \in ToolCallLists \ {<<>>},
        content \in CompletionContents, hasToolCalls \in BOOLEAN :
       /\ FirstThrow(WithIds(tcs), 0) = 0
       /\ task' = [task EXCEPT ![i] =
            FinalResponse(
              [@ EXCEPT !.completionCalls = @ + 1 + CallsAfterTools(hasToolCalls),
                        !.toolRounds = @ + 1],
              content, IF hasToolCalls THEN "tool_calls" ELSE "stop")]
  /\ UNCHANGED <<mcp, gen, channel, agents, conversations, messages, faults>>

\* The first response carries tool calls and the handling of one of them throws:
\* nothing catches the error before the catch of line 383, which wraps it.
ToolCallThrows(i) ==
  /\ task[i].pc = "completion"
  /\ \E tcs \in ToolCallLists \ {<<>>}, raiseAt \in 0..MaxToolCalls :
       /\ FirstThrow(WithIds(tcs), raiseAt) > 0
       /\ task' = [task EXCEPT ![i] =
            Fail([@ EXCEPT !.completionCalls = @ + 1, !.toolRounds = @ + 1],
                 "toolCall", GenerationError)]
       /\ faults' = faults + (IF FirstThrow(WithIds(tcs), 0) = 0 THEN 1 ELSE 0)
       /\ faults' <= MaxFaults
  /\ UNCHANGED <<mcp, gen, channel, agents, conversations, messages>>

\* Every tool call is handled and the second call fails.
FinalCompletionFails(i) ==
  /\ task[i].pc = "completion"
  /\ \E tcs \in ToolCallLists \ {<<>>} :
       /\ FirstThrow(WithIds(tcs), 0) = 0
       /\ faults < MaxFaults
       /\ faults' = faults + 1
       /\ task' = [task EXCEPT ![i] =
            Fail([@ EXCEPT !.completionCalls = @ + 2, !.toolRounds = @ + 1],
                 "finalCompletion", GenerationError)]
  /\ UNCHANGED <<mcp, gen, channel, agents, conversations, messages>>

\* Lines 215-229: the agent message messagesService.create inserts.
AgentMessage(conv, aiResponse) ==
  [conversationId |-> conv.id,
   type |-> "text",
   authorRole |-> "agent",
   authorId |-> conv.virtualAgentId,
   authorName |-> "",
   content |-> OrElse(aiResponse.content, Str(<<>>)),
   attachments |-> 0,
   externalMessageId |-> 0,
   toolCalls |-> aiResponse.toolCalls]

SaveAgentMessage(i) ==
  /\ task[i].pc = "saveAgentMessage"
  /\ LET conv == task[i].conversation
     IN /\ messages' = [messages EXCEPT ![conv.id] =
                          Append(@, AgentMessage(conv, task[i].aiResponse))]
        /\ task' = [task EXCEPT ![i] =
             [@ EXCEPT !.agentMessageId = Len(messages[conv.id]) + 1,
                       !.pc = "sendMessage"]]
  /\ UNCHANGED <<mcp, gen, channel, agents, conversations, faults>>

SaveAgentMessageFails(i) ==
  /\ task[i].pc = "saveAgentMessage"
  /\ faults < MaxFaults
  /\ faults' = faults + 1
  /\ task' = [task EXCEPT ![i] = Fail(@, "saveAgentMessage", PersistenceError)]
  /\ UNCHANGED <<mcp, gen, channel, agents, conversations, messages>>

\* Lines 236-242 and TelegramChannelService.sendMessage: a reply with text is
\* sent; without text and attachments sendMessage throws.
SendMessage(i) ==
  /\ task[i].pc = "sendMessage"
  /\ LET content == OrElse(task[i].aiResponse.content, Str(<<>>))
         called == [task[i] EXCEPT !.sends = @ + 1, !.channelConfig = channel.config]
     IN task' = [task EXCEPT ![i] =
          IF Truthy(content)
          THEN [called EXCEPT !.pc = "updateMessage"]
          ELSE Throw(called, handleError("sendMessage"))]
  /\ UNCHANGED <<mcp, gen, channel, agents, conversations, messages, faults>>

\* bot.sendMessage fails: sendMessage's catch rethrows through handleError.
SendMessageFails(i) ==
  /\ task[i].pc = "sendMessage"
  /\ Truthy(task[i].aiResponse.content)
  /\ faults < MaxFaults
  /\ faults' = faults + 1
  /\ task' = [task EXCEPT ![i] =
       Fail([@ EXCEPT !.sends = @ + 1, !.channelConfig = channel.config],
            "sendMessage", handleError("sendMessage"))]
  /\ UNCHANGED <<mcp, gen, channel, agents, conversations, messages>>

\* The id Telegram gives the message the bot sent (distinct from inbound ids).
SentMessageId(agentMessageId) == 0 - agentMessageId

\* Lines 245-247: the external id is attached to the agent message.
UpdateMessage(i) ==
  /\ task[i].pc = "updateMessage"
  /\ messages' = [messages EXCEPT
       ![task[i].conversation.id][task[i].agentMessageId].externalMessageId =
         SentMessageId(task[i].agentMessageId)]
  /\ task' = [task EXCEPT ![i] = Return(@)]
  /\ UNCHANGED <<mcp, gen, channel, agents, conversations, faults>>

UpdateMessageFails(i) ==
  /\ task[i].pc = "updateMessage"
  /\ faults < MaxFaults
  /\ faults' = faults + 1
  /\ task' = [task EXCEPT ![i] = Fail(@, "updateMessage", PersistenceError)]
  /\ UNCHANGED <<mcp, gen, channel, agents, conversations, messages>>

GenerateAndSendResponse(i) ==
  \/ FindLastMessage(i) \/ FindLastMessageFails(i)
  \/ BuildContext(i) \/ FindAgentFails(i) \/ BuildContextFails(i)
  \/ Completion(i) \/ CompletionFails(i)
  \/ CompletionWithTools(i) \/ ToolCallThrows(i) \/ FinalCompletionFails(i)
  \/ SaveAgentMessage(i) \/ SaveAgentMessageFails(i)
  \/ SendMessage(i) \/ SendMessageFails(i)
  \/ UpdateMessage(i) \/ UpdateMessageFails(i)

\* ------------------------------------------------ stored conversations

\* ConversationStatus (conversation.schema.ts)
ConversationStatus == {"open", "closed", "archived", "paused"}

\* The event of an earlier delivery: user c wrote a text without mention in the group.
EarlierEvent ==
  [hasMessage |-> TRUE, message |-> TelegramMessage(GroupChat, "c", 0, Text)]

\* The conversation handleIncomingMessage created for that event, with the status
\* it has been given since (ConversationsService.update accepts any status).
ExistingConversation(ch, as, status) ==
  [NewConversation(1, receiveMessage(EarlierEvent), ch, as) EXCEPT !.status = status]

\* --------------------------------------------------- MCPClientService

\* Server names of MCP_SERVERS and tool names the servers list (names may
\* contain '_' and '-').
ServerNames == { <<"s">>, <<"a", "_", "b">> }
ToolNames == { <<"t">>, <<"g", "-", "t">>, <<"g", "_", "t">> }
\* What a server answers to listTools.
ToolLists == { { <<"t">> }, ToolNames }

Callers == 1..MaxCallers

NoClient == 0
\* this.tools.get(serverName) is undefined
NoTools == [present |-> FALSE, names |-> {}]
NoInvocation == [matched |-> FALSE, serverName |-> <<>>, toolName |-> <<>>]

\* A call of a public method of MCPManagerService / MCPClientService: the method,
\* the await it is suspended at, its locals, and what it returned or threw.
IdleCall ==
  [op |-> "none", pc |-> "idle", serverName |-> <<>>, client |-> NoClient,
   pending |-> <<>>, result |-> "none"]

\* MCPClientService and MCPManagerService after construction: the maps are empty.
McpConstructed ==
  [clients |-> [s \in ServerNames |-> NoClient],          \* this.clients
   keys |-> <<>>,                                         \* insertion order of this.clients
   tools |-> [s \in ServerNames |-> NoTools],             \* this.tools
   configuredServers |-> {},                              \* this.configuredServers
   mcpServersConfig |-> {},                               \* MCPManagerService.mcpServersConfig
   open |-> {},                   \* <<client, server>>: connected and not closed
   created |-> 0,                 \* number of `new Client` so far
   invocations |-> 0,             \* number of calls made so far
   tool |-> <<>>,                 \* the discovered tool last offered and called
   invocation |-> NoInvocation,   \* what extractMCPInvocation decoded for it
   call |-> [c \in Callers |-> IdleCall]]

\* initializeAllServers, lines 153-177, has run for the servers of MCP_SERVERS:
\* each is registered, and those of `connected` were connected and listed tool t
\* (a failure is logged and the next server is tried).
McpStarted(connected) ==
  LET order == IF <<"s">> \in connected
               THEN << <<"s">> >> \o (IF <<"a", "_", "b">> \in connected
                                      THEN << <<"a", "_", "b">> >> ELSE <<>>)
               ELSE IF <<"a", "_", "b">> \in connected
                    THEN << <<"a", "_", "b">> >> ELSE <<>>
      number == [s \in ServerNames |->
                   IF s \notin connected THEN NoClient
                   ELSE IF order[1] = s THEN 1 ELSE 2]
  IN [McpConstructed EXCEPT
        !.clients = number,
        !.keys = order,
        !.tools = [s \in ServerNames |->
                     IF s \in connected THEN [present |-> TRUE, names |-> { <<"t">> }]
                     ELSE NoTools],
        !.configuredServers = ServerNames,
        !.mcpServersConfig = ServerNames,
        !.open = { <<number[s], s>> : s \in connected },
        !.created = Cardinality(connected)]

\* The call of caller c returns (result "ok") or throws; its frame is gone.
Finish(m, c, result) ==
  [m EXCEPT !.call[c] = [IdleCall EXCEPT !.result = result]]

\* connectToServer up to `await client.connect(transport)`, lines 303-320.
StartConnect(m, c, serverName) ==
  IF m.clients[serverName] # NoClient
  THEN Finish(m, c, "ok")
  ELSE IF serverName \notin m.configuredServers
  THEN Finish(m, c, "MCP server configuration not found")
  ELSE [m EXCEPT !.created = @ + 1,
                 !.call[c].pc = "connect",
                 !.call[c].serverName = serverName,
                 !.call[c].client = m.created + 1]

\* What follows the disconnects of a call: disconnect and disconnectAll return;
\* reconnectServer (lines 285-286) registers the config and
\* connects.
AfterDisconnect(m, c) ==
  LET op == m.call[c].op
      serverName == m.call[c].serverName
  IN IF op = "reconnectServer"
     THEN StartConnect([m EXCEPT !.configuredServers = @ \cup {serverName}], c, serverName)
     ELSE Finish(m, c, "ok")

\* disconnect for each pending server in turn, up to `await client.close()`
\* (lines 463-466); a server without client is passed over.
RECURSIVE StartDisconnect(_, _)
StartDisconnect(m, c) ==
  LET pending == m.call[c].pending
  IN IF pending = <<>> THEN AfterDisconnect(m, c)
     ELSE IF m.clients[Head(pending)] = NoClient
     THEN StartDisconnect([m EXCEPT !.call[c].pending = Tail(pending)], c)
     ELSE [m EXCEPT !.call[c].pc = "close",
                    !.call[c].serverName = Head(pending),
                    !.call[c].client = m.clients[Head(pending)],
                    !.call[c].pending = Tail(pending)]

\* The call of method op on server serverName, up to its first await.
Invoked(m, c, op, serverName) ==
  LET called == [m EXCEPT !.invocations = @ + 1,
                          !.call[c] = [IdleCall EXCEPT !.op = op, !.serverName = serverName]]
  IN CASE op = "connectToServer" -> StartConnect(called, c, serverName)
       \* addServer, lines 227-236
       [] op = "addServer" ->
            IF called.clients[serverName] # NoClient
            THEN Finish(called, c, "already connected")
            ELSE StartConnect([called EXCEPT !.configuredServers = @ \cup {serverName}],
                              c, serverName)
       \* reconnectServer, lines 277-284
       [] op = "reconnectServer" ->
            IF serverName \notin called.mcpServersConfig
            THEN Finish(called, c, "MCP server configuration not found")
            ELSE StartDisconnect([called EXCEPT !.call[c].pending = <<serverName>>], c)
       [] op = "disconnect" ->
            StartDisconnect([called EXCEPT !.call[c].pending = <<serverName>>], c)
       \* disconnectAll: Array.from(this.clients.keys())
       [] op = "disconnectAll" ->
            StartDisconnect([called EXCEPT !.call[c].pending = called.keys,
                                           !.call[c].serverName = <<>>], c)

Methods ==
  {"connectToServer", "addServer", "reconnectServer", "disconnect", "disconnectAll"}

Invoke(c) ==
  /\ mcp.call[c].pc = "idle"
  /\ mcp.invocations < MaxInvocations
  /\ \E op \in Methods, serverName \in ServerNames :
       mcp' = Invoked(mcp, c, op, serverName)
  /\ UNCHANGED <<gen, channel, agents, conversations, messages, task, faults>>

\* this.clients.set(serverName, client)
SetClient(m, serverName, client) ==
  [m EXCEPT !.clients[serverName] = client,
            !.keys = IF m.clients[serverName] = NoClient THEN Append(@, serverName) ELSE @,
            !.open = @ \cup { <<client, serverName>> }]

\* client.connect returns: lines 321-325, up to `await client.listTools()`.
ConnectReturns(c) ==
  /\ mcp.call[c].pc = "connect"
  /\ mcp' = [SetClient(mcp, mcp.call[c].serverName, mcp.call[c].client)
               EXCEPT !.call[c].pc = "listTools"]
  /\ UNCHANGED <<gen, channel, agents, conversations, messages, task, faults>>

\* client.connect throws: the catch of line 326 rethrows.
ConnectFails(c) ==
  /\ mcp.call[c].pc = "connect"
  /\ mcp' = Finish(mcp, c, "connect failed")
  /\ UNCHANGED <<gen, channel, agents, conversations, messages, task, faults>>

\* fetchTools, lines 376-385: the tools are stored; addServer then records the
\* config (line 238).
ListToolsReturns(c) ==
  /\ mcp.call[c].pc = "listTools"
  /\ \E names \in ToolLists :
       LET serverName == mcp.call[c].serverName
           fetched == [mcp EXCEPT !.tools[serverName] = [present |-> TRUE, names |-> names]]
       IN mcp' = Finish(IF mcp.call[c].op = "addServer"
                        THEN [fetched EXCEPT !.mcpServersConfig = @ \cup {serverName}]
                        ELSE fetched, c, "ok")
  /\ UNCHANGED <<gen, channel, agents, conversations, messages, task, faults>>

\* client.listTools throws: fetchTools and connectToServer rethrow (lines 391, 328).
ListToolsFails(c) ==
  /\ mcp.call[c].pc = "listTools"
  /\ mcp' = Finish(mcp, c, "listTools failed")
  /\ UNCHANGED <<gen, channel, agents, conversations, messages, task, faults>>

\* this.clients.delete(serverName); this.tools.delete(serverName)
DeleteClient(m, serverName, client) ==
  [m EXCEPT !.clients[serverName] = NoClient,
            !.keys = SelectSeq(@, LAMBDA k : k # serverName),
            !.tools[serverName] = NoTools,
            !.open = @ \ { <<client, serverName>> }]

\* client.close returns: lines 467-468, then the rest of the call.
CloseReturns(c) ==
  /\ mcp.call[c].pc = "close"
  /\ mcp' = StartDisconnect(DeleteClient(mcp, mcp.call[c].serverName, mcp.call[c].client), c)
  /\ UNCHANGED <<gen, channel, agents, conversations, messages, task, faults>>

\* client.close throws: the catch of line 470 rethrows, the entries stay.
CloseFails(c) ==
  /\ mcp.call[c].pc = "close"
  /\ mcp' = Finish(mcp, c, "close failed")
  /\ UNCHANGED <<gen, channel, agents, conversations, messages, task, faults>>

\* The tools getAllTools() holds: <<serverName, name>> of every MCPTool.
DiscoveredTools(m) ==
  { <<s, t>> \in ServerNames \X ToolNames : m.tools[s].present /\ t \in m.tools[s].names }

\* A discovered tool is offered to the backend under the name
\* convertMCPToolsToOpenAIFormat builds, the backend calls it, and handleToolCall
\* decodes the name with extractMCPInvocation.
CallDiscoveredTool ==
  /\ \E tool \in DiscoveredTools(mcp) :
       LET decoded == extractMCPInvocation(McpFunctionName(tool[1], tool[2]))
       IN /\ <<tool, decoded>> # <<mcp.tool, mcp.invocation>>
          /\ mcp' = [mcp EXCEPT !.tool = tool, !.invocation = decoded]
  /\ UNCHANGED <<gen, channel, agents, conversations, messages, task, faults>>

\* ----------------------------------- generateChatCompletion, step by step

\* completion.usage: prompt_tokens, completion_tokens, total_tokens; a missing
\* usage (usage?.x is undefined) counts like 0 in `x || 0`.
NoUsage == [prompt |-> 0, completion |-> 0, total |-> 0]
FirstUsages == { NoUsage, [prompt |-> 2, completion |-> 1, total |-> 3] }
FinalUsages == { NoUsage, [prompt |-> 3, completion |-> 1, total |-> 4] }

\* JavaScript a || b on numbers: 0 and undefined are falsy.
NumOr(a, b) == IF a # 0 THEN a ELSE b

\* Lines 353-357. `+` binds tighter than `||`, so
\* `usage?.prompt_tokens || 0 + (finalUsage?.prompt_tokens || 0)` is
\* usage?.prompt_tokens || (0 + (finalUsage?.prompt_tokens || 0)); the total is
\* parenthesised.
TokensAfterTools(usage, finalUsage) ==
  [prompt |-> NumOr(usage.prompt, 0 + NumOr(finalUsage.prompt, 0)),
   completion |-> NumOr(usage.completion, 0 + NumOr(finalUsage.completion, 0)),
   total |-> NumOr(usage.total, 0) + NumOr(finalUsage.total, 0)]

\* Lines 377-381
Tokens(usage) ==
  [prompt |-> NumOr(usage.prompt, 0),
   completion |-> NumOr(usage.completion, 0),
   total |-> NumOr(usage.total, 0)]

NoGeneration ==
  [pc |-> "idle",
   answered |-> 0,               \* _id of the message whose content is userMessage
   messages |-> <<>>,            \* messages: buildContext plus the user message
   toolCalls |-> <<>>,           \* choice.message.tool_calls
   processedMessages |-> <<>>,
   handled |-> 0,                \* tool calls whose handling has returned
   running |-> FALSE,            \* handleToolCall is awaited
   log |-> <<>>,                 \* start and end of each handleToolCall, in time order
   usage |-> NoUsage,            \* completion.usage
   finalRequest |-> <<>>,        \* messages of the second create call
   finalUsage |-> NoUsage,       \* finalCompletion.usage
   response |-> NoResponse,      \* the ChatCompletionResponse returned
   tokens |-> NoUsage,
   result |-> "none"]

\* Lines 312-316: the assistant turn that carries the tool calls.
AssistantTurn(content, toolCalls) ==
  [Entry("assistant", content, 0, 0) EXCEPT !.tool_calls = toolCalls]

\* Lines 325-330: the tool-result turn of a call, tagged with the call's id.
ToolResultTurn(toolCall, toolResult) ==
  [Entry("tool", Str(<<toolResult>>), 0, 0) EXCEPT !.tool_call_id = toolCall.id]

\* Line 319, for (const toolCall of toolCalls): the call handled after `handled`
\* calls have returned.
NextToolCallFromEnd(toolCalls, handled) == Len(toolCalls) - handled
NextToolCall(toolCalls, handled) == handled + 1

\* Messages with text content: what the orchestrator passes as userMessage
\* (lastUserMessage.content of the message it found most recent).
WithText(conversationId) ==
  { id \in 1..Len(messages[conversationId]) :
      Truthy(messages[conversationId][id].content) }

\* Lines 259-280: getOpenAIClient, buildContext, the append of the user message.
GenBuildContext ==
  /\ gen.pc = "idle"
  /\ gen.result = "none"
  /\ \E id \in WithText(1), media \in SUBSET WithAttachment(1) :
       LET ctx == buildContext(1, SystemPrompt(conversations[1].virtualAgentId),
                               ContextLimit(channel), media)
       IN gen' = [gen EXCEPT !.answered = id,
                             !.messages = WithUserMessage(ctx, messages[1][id].content),
                             !.pc = "completion"]
  /\ UNCHANGED <<mcp, channel, agents, conversations, messages, task, faults>>

\* Lines 292-310 and 361-382: the first response carries no tool calls and is returned.
GenResponse ==
  /\ gen.pc = "completion"
  /\ \E content \in CompletionContents, usage \in FirstUsages :
       gen' = [gen EXCEPT !.pc = "done", !.result = "ok", !.usage = usage,
                          !.response = [content |-> content, toolCalls |-> <<>>,
                                        finishReason |-> "stop"],
                          !.tokens = Tokens(usage)]
  /\ UNCHANGED <<mcp, channel, agents, conversations, messages, task, faults>>

\* Lines 292-316: the first response carries tool calls.
GenResponseWithTools ==
  /\ gen.pc = "completion"
  /\ \E tcs \in ToolCallLists \ {<<>>}, content \in CompletionContents,
        usage \in FirstUsages :
       gen' = [gen EXCEPT !.pc = "tools", !.usage = usage,
                          !.toolCalls = WithIds(tcs),
                          !.processedMessages =
                            Append(gen.messages, AssistantTurn(content, WithIds(tcs)))]
  /\ UNCHANGED <<mcp, channel, agents, conversations, messages, task, faults>>

\* Either create call fails, or a tool call throws: the catch of line 383.
GenFails ==
  /\ gen.pc \in {"completion", "final"}
  /\ gen' = [gen EXCEPT !.pc = "done", !.result = GenerationError]
  /\ UNCHANGED <<mcp, channel, agents, conversations, messages, task, faults>>

\* Line 320: handleToolCall is called for the next tool call and awaited; a call
\* with malformed arguments or for a server without client throws at once.
GenToolCallStarts ==
  /\ gen.pc = "tools"
  /\ ~ gen.running
  /\ gen.handled < Len(gen.toolCalls)
  /\ LET toolCall == gen.toolCalls[NextToolCall(gen.toolCalls, gen.handled)]
         started == [gen EXCEPT !.log = Append(@, <<"start", toolCall.id>>)]
     IN gen' = IF handleToolCall(toolCall) = "throw"
               THEN [started EXCEPT !.pc = "done", !.result = GenerationError]
               ELSE [started EXCEPT !.running = TRUE]
  /\ UNCHANGED <<mcp, channel, agents, conversations, messages, task, faults>>

\* Lines 320-330: handleToolCall returns (the server's result, or the
\* placeholder for a tool that is not an MCP tool) and the result turn is pushed.
GenToolCallReturns ==
  /\ gen.pc = "tools"
  /\ gen.running
  /\ LET toolCall == gen.toolCalls[NextToolCall(gen.toolCalls, gen.handled)]
         toolResult == IF handleToolCall(toolCall) = "call" THEN "result" ELSE "not found"
     IN gen' = [gen EXCEPT !.running = FALSE,
                           !.handled = @ + 1,
                           !.log = Append(@, <<"end", toolCall.id>>),
                           !.processedMessages = Append(@, ToolResultTurn(toolCall, toolResult)),
                           !.pc = IF gen.handled + 1 = Len(gen.toolCalls)
                                  THEN "final" ELSE "tools"]
  /\ UNCHANGED <<mcp, channel, agents, conversations, messages, task, faults>>

\* The tool server raises (callTool line 448): nothing catches it before line 383.
GenToolCallThrows ==
  /\ gen.pc = "tools"
  /\ gen.running
  /\ handleToolCall(gen.toolCalls[NextToolCall(gen.toolCalls, gen.handled)]) = "call"
  /\ gen' = [gen EXCEPT !.running = FALSE, !.pc = "done", !.result = GenerationError]
  /\ UNCHANGED <<mcp, channel, agents, conversations, messages, task, faults>>

\* Lines 334-358: the second create call with processedMessages; its response
\* is returned.
GenFinalResponse ==
  /\ gen.pc = "final"
  /\ \E content \in CompletionContents, finalUsage \in FinalUsages,
        finishReason \in {"stop", "tool_calls"} :
       gen' = [gen EXCEPT !.pc = "done", !.result = "ok",
                          !.finalRequest = gen.processedMessages,
                          !.finalUsage = finalUsage,
                          !.response = [content |-> content, toolCalls |-> <<>>,
                                        finishReason |-> finishReason],
                          !.tokens = TokensAfterTools(gen.usage, finalUsage)]
  /\ UNCHANGED <<mcp, channel, agents, conversations, messages, task, faults>>

\* The messages a conversation may hold at position n: a text of user a, a voice
\* message of user b, a reply of the agent.
StoredMessages(conv, n) ==
  { UserMessage(conv, receiveMessage(
      [hasMessage |-> TRUE, message |-> TelegramMessage(GroupChat, "a", n, Mention)])),
    UserMessage(conv, receiveMessage(
      [hasMessage |-> TRUE, message |-> TelegramMessage(GroupChat, "b", n, Voice)])),
    AgentMessage(conv, [content |-> Str(<<"reply">>), toolCalls |-> <<>>,
                        finishReason |-> "stop"]) }

\* One conversation of agent A1 (with system prompt) or A2 (without), holding up
\* to MaxStored messages, on a channel with maxContextMessages unset, 1 or 2.
GenInit ==
  /\ \E maxContextMessages \in 0..2 :
       channel = [Channel("A1") EXCEPT !.maxContextMessages = maxContextMessages]
  /\ agents = << Agent("A2", "active") >>
  /\ \E virtualAgentId \in {"A1", "A2"} :
       conversations =
         << [ExistingConversation(Channel("A1"), agents, "open")
               EXCEPT !.virtualAgentId = virtualAgentId] >>
  /\ \E count \in 1..MaxStored :
       \E stored \in [1..count -> UNION { StoredMessages(conversations[1], n) : n \in 1..count }] :
         /\ \A n \in 1..count : stored[n] \in StoredMessages(conversations[1], n)
         /\ messages = << stored >>
  /\ gen = NoGeneration
  /\ mcp = McpConstructed
  /\ task = [i \in Tasks |-> IdleTask]
  /\ faults = 0

GenNext ==
  \/ GenBuildContext
  \/ GenResponse \/ GenResponseWithTools \/ GenFails
  \/ GenToolCallStarts \/ GenToolCallReturns \/ GenToolCallThrows
  \/ GenFinalResponse

\* One generateChatCompletion invocation on a stored conversation.
SpecCompletion == GenInit /\ [][GenNext]_vars

\* ------------------------------------------- tool-server connections

McpInit ==
  /\ \E connected \in SUBSET ServerNames :
       mcp \in { McpConstructed, McpStarted(connected) }
  /\ gen = NoGeneration
  /\ channel = Channel("A1")
  /\ agents = <<>>
  /\ conversations = <<>>
  /\ messages = <<>>
  /\ task = [i \in Tasks |-> IdleTask]
  /\ faults = 0

McpNext ==
  \/ \E c \in Callers :
       \/ Invoke(c)
       \/ ConnectReturns(c) \/ ConnectFails(c)
       \/ ListToolsReturns(c) \/ ListToolsFails(c)
       \/ CloseReturns(c) \/ CloseFails(c)
  \/ CallDiscoveredTool

\* The tool-server connections: any calls of the manager's and the client
\* service's methods by concurrent callers.
SpecMcp == McpInit /\ [][McpNext]_vars

\* ------------------------------------------------------- initial states

\* The service starts with the collections empty, or with the group conversation
\* of the earlier event and the user message persisted for it.
Init ==
  /\ \E d \in Deployments :
       /\ channel = d.channel
       /\ agents = d.agents
       /\ \/ conversations = <<>> /\ messages = <<>>
          \/ \E status \in ConversationStatus :
               LET existing == ExistingConversation(d.channel, d.agents, status)
               IN /\ conversations = << existing >>
                  /\ messages = << << UserMessage(existing, receiveMessage(EarlierEvent)) >> >>
  /\ task = [i \in Tasks |-> IdleTask]
  /\ faults = 0
  /\ mcp = McpConstructed
  /\ gen = NoGeneration

Next ==
  \/ \E i \in Tasks : HandleIncomingMessage(i)
  \/ \E i \in Tasks : GenerateAndSendResponse(i)

Spec == Init /\ [][Next]_vars

\* One invocation on any of the initial states. Every awaited collaborator call
\* returns or fails, and the continuation of a settled promise is run: an
\* invocation that can take a step takes one.
LiveNext == HandleIncomingMessage(1) \/ GenerateAndSendResponse(1)

SpecLive == Init /\ [][LiveNext]_vars /\ WF_vars(LiveNext)

\* ------------------------------------- single operations, any input

\* Payloads besides Text, Mention and Voice: a photo without caption, and a
\* message that carries none of the payloads receiveMessage looks at (a sticker,
\* a location, a contact).
Photo == [text |-> Undefined, photo |-> TRUE, voice |-> FALSE]
Sticker == [text |-> Undefined, photo |-> FALSE, voice |-> FALSE]

AnyEvents ==
  { [hasMessage |-> TRUE, message |-> TelegramMessage(chat, "a", 1, payload)] :
      chat \in {PrivateChat, GroupChat},
      payload \in {Text, Mention, Voice, Photo, Sticker} }
  \cup { NoEvent }

\* The virtual agents of a tenant, as virtualAgentsService.findAll returns them
\* (repository find without filter: agents of any status, in stored order).
AgentLists ==
  LET all == { Agent(id, status) : id \in {"A2", "A3"}, status \in {"active", "inactive"} }
  IN { as \in UNION { [1..n -> all] : n \in 0..MaxAgents } :
         \A k, l \in 1..Len(as) : as[k].id = as[l].id => k = l }

\* The service with any channel default and any list of agents, no conversation.
OperationsInit ==
  /\ \E defaultVirtualAgentId \in {NoAgent, "A1"} :
       channel = Channel(defaultVirtualAgentId)
  /\ agents \in AgentLists
  /\ conversations = <<>>
  /\ messages = <<>>
  /\ task = [i \in Tasks |-> IdleTask]
  /\ faults = 0
  /\ mcp = McpConstructed
  /\ gen = NoGeneration

\* handleIncomingMessage lines 43-53 on any event.
ReceiveAny ==
  /\ task[1].pc = "idle"
  /\ \E ev \in AnyEvents : task' = [task EXCEPT ![1] = Received(@, ev, channel)]
  /\ UNCHANGED <<mcp, gen, channel, agents, conversations, messages, faults>>

\* ConversationsService.update(tenantId, id, {status}): updateOrFail with the
\* DTO as given; UpdateConversationDto accepts any ConversationStatus.
UpdateStatus(c, status) ==
  /\ c \in 1..Len(conversations)
  /\ conversations[c].status # status
  /\ conversations' = [conversations EXCEPT ![c].status = status]
  /\ UNCHANGED <<mcp, gen, channel, agents, messages, task, faults>>

OperationsNext ==
  \/ ReceiveAny
  \/ FindConversation(1)
  \/ CreateConversation(1)
  \/ SaveUserMessage(1)
  \/ \E c \in 1..MaxTasks, status \in ConversationStatus : UpdateStatus(c, status)

\* One event handled up to the save of the user message, and status updates
\* through the REST service.
SpecOperations == OperationsInit /\ [][OperationsNext]_vars

\* ------------------------------------------------------------ properties

Done(i) == task[i].pc = "done"
\* The task has looked the conversation up (or created it) and has not returned.
AfterLookup(i) == task[i].pc \notin {"idle", "findConversation", "done"}
SameThread(i, j) ==
  /\ task[i].parsedMessage.externalChannelId # ""
  /\ task[i].parsedMessage.externalChannelId = task[j].parsedMessage.externalChannelId
Mentioned(i) == Includes(task[i].parsedMessage.content, "@" \o channel.name)
Members(c) == { conversations[c].participants[p] : p \in 1..Len(conversations[c].participants) }

\* C1: at every moment, whatever the interleaving of the inbound events, no two
\* Conversation documents have the same (channelId, externalChannelId).
C1_UniqueConversation ==
  \A c, d \in 1..Len(conversations) :
    (/\ conversations[c].channelId = conversations[d].channelId
     /\ conversations[c].externalChannelId = conversations[d].externalChannelId)
    => c = d

\* Two events of one thread raced: both tasks found no conversation, one inserted
\* it and the insert of the other was rejected by the unique index.
C1_Witness ==
  \E i, j \in Tasks :
    /\ i # j /\ SameThread(i, j)
    /\ task[i].created
    /\ Done(j) /\ task[j].result = DuplicateKeyError

\* C2: the steps from the conversation lookup to the end of generateAndSendResponse
\* are serialized per conversation: no two tasks of one thread are both between
\* their lookup and their return.
C2_Serialized ==
  \A i, j \in Tasks :
    (i # j /\ AfterLookup(i) /\ AfterLookup(j)) => ~ SameThread(i, j)

\* C3: a request answers its own message and builds its context from what was
\* persisted before it: of two tasks that handle different events of one
\* conversation, the one whose user message was persisted first neither takes
\* the other's user message as the message to answer nor has it in its context.
C3_ContextExcludesLaterRequest ==
  \A i, j \in Tasks :
    (/\ i # j
     /\ task[i].conversation.id # 0
     /\ task[i].conversation.id = task[j].conversation.id
     /\ task[i].event # task[j].event
     /\ task[i].userMessageId # 0
     /\ task[i].userMessageId < task[j].userMessageId)
    => /\ task[i].lastUserMessage # task[j].userMessageId
       /\ \A k \in 1..Len(task[i].context) :
            task[i].context[k].id # task[j].userMessageId

\* C4: no join is lost: a sender whose participant update was applied stays
\* among the participants of the conversation.
C4_NoLostJoin ==
  \A i \in Tasks :
    task[i].joined => task[i].parsedMessage.authorId \in Members(task[i].conversation.id)

\* C5: one invocation issues at most two completion calls, whatever the number of
\* tool calls and whether or not the second response carries tool calls again.
C5_AtMostTwoCompletionCalls ==
  \A i \in Tasks : task[i].completionCalls <= 2

\* The second response carried tool calls again and was returned as the final one.
C5_Witness ==
  \E i \in Tasks :
    /\ task[i].pc = "saveAgentMessage"
    /\ task[i].aiResponse.finishReason = "tool_calls"
    /\ task[i].completionCalls = 2

\* C6: a failing tool call does not abort the agentic loop: a task one of whose
\* tool calls failed does not end with the generation error.
C6_ToolFailureDoesNotAbort ==
  \A i \in Tasks : task[i].fault = "toolCall" => task[i].result # GenerationError

\* C7: a message in a group conversation that does not contain `@<channel name>`
\* triggers no completion call and no send, and the handler returns without
\* error unless a persistence call failed.
C7_UnaddressedGroupMessage ==
  \A i \in Tasks :
    (task[i].conversation.type = "group" /\ ~ Mentioned(i))
    => /\ task[i].completionCalls = 0
       /\ task[i].sends = 0
       /\ task[i].pc \in {"addParticipant", "saveUserMessage", "done"}
       /\ (Done(i) /\ task[i].fault \in {"none", "addParticipant"}) => task[i].result = "ok"

\* An open group conversation with an agent got a message without mention; the
\* message was persisted and the handler returned.
C7_Witness ==
  \E i \in Tasks :
    /\ Done(i) /\ task[i].result = "ok"
    /\ task[i].conversation.type = "group" /\ ~ Mentioned(i)
    /\ ShouldRespond(task[i].conversation)
    /\ task[i].userMessageId # 0
    /\ task[i].completionCalls = 0 /\ task[i].sends = 0

\* C8: a message on a conversation that is not open or has no agent: the user
\* message is persisted, no completion call and no send is made; only open
\* conversations trigger completion generation.
C8_NotOpenNoResponse ==
  \A i \in Tasks :
    /\ (/\ task[i].conversation.id # 0
        /\ \/ task[i].conversation.status # "open"
           \/ task[i].conversation.virtualAgentId = NoAgent)
       => /\ task[i].completionCalls = 0
          /\ task[i].sends = 0
          /\ task[i].pc \in {"addParticipant", "saveUserMessage", "done"}
          /\ (Done(i) /\ task[i].fault \in {"none", "addParticipant"})
             => /\ task[i].result = "ok"
                /\ task[i].userMessageId \in 1..Len(messages[task[i].conversation.id])
                /\ messages[task[i].conversation.id][task[i].userMessageId] =
                     UserMessage(task[i].conversation, task[i].parsedMessage)
    /\ task[i].completionCalls > 0 => task[i].conversation.status = "open"

\* A text that mentions the channel arrived on the existing, paused conversation
\* that has an agent; it was persisted and the handler returned.
C8_Witness ==
  \E i \in Tasks :
    /\ Done(i) /\ task[i].result = "ok"
    /\ ~ task[i].created
    /\ task[i].conversation.status = "paused"
    /\ task[i].conversation.virtualAgentId # NoAgent
    /\ Mentioned(i)
    /\ task[i].userMessageId # 0
    /\ task[i].completionCalls = 0 /\ task[i].sends = 0

\* C9: no conversation holds two user messages with the same externalMessageId
\* (a redelivered event creates no second message).
C9_NoDuplicateUserMessage ==
  \A c \in 1..Len(messages) : \A m, n \in 1..Len(messages[c]) :
    (/\ messages[c][m].authorRole = "user"
     /\ messages[c][n].authorRole = "user"
     /\ messages[c][m].externalMessageId = messages[c][n].externalMessageId)
    => m = n

\* The call of sendMessage of task i failed and the task ended with that error.
SendFailed(i) ==
  /\ Done(i)
  /\ task[i].sends = 1
  /\ task[i].result # "ok"
  /\ task[i].fault \in {"none", "sendMessage"}

\* C10: when sendMessage fails, the agent message persisted before stays in the
\* collection, and the error that reaches the caller is not the generation error.
C10_SendFailureKeepsMessage ==
  \A i \in Tasks :
    SendFailed(i)
    => /\ task[i].agentMessageId \in 1..Len(messages[task[i].conversation.id])
       /\ messages[task[i].conversation.id][task[i].agentMessageId].authorRole = "agent"
       /\ task[i].result # GenerationError

\* The channel failed to deliver a reply that had been generated and persisted.
C10_Witness ==
  \E i \in Tasks :
    /\ SendFailed(i)
    /\ task[i].fault = "sendMessage"
    /\ task[i].completionCalls > 0
    /\ Truthy(messages[task[i].conversation.id][task[i].agentMessageId].content)

\* The gate of line 128 and the mention check of line 130 let the task through
\* to generateAndSendResponse.
Answers(i) ==
  /\ ShouldRespond(task[i].conversation)
  /\ ~ Unaddressed(task[i].conversation, task[i].parsedMessage, channel)

\* C11: when receiveMessage fails, handleIncomingMessage fails and the task has
\* created no conversation and persisted no message; when persisting the user
\* message fails, handleIncomingMessage fails and no completion call and no send
\* was made. In neither case does the call report success.
C11_InboundFailureAborts ==
  \A i \in Tasks :
    /\ (Done(i) /\ ~ task[i].event.hasMessage)
       => /\ task[i].result \notin {"none", "ok"}
          /\ ~ task[i].created
          /\ task[i].userMessageId = 0 /\ task[i].agentMessageId = 0
    /\ task[i].fault = "saveUserMessage"
       => /\ Done(i)
          /\ task[i].result \notin {"none", "ok"}
          /\ task[i].userMessageId = 0
          /\ task[i].completionCalls = 0 /\ task[i].sends = 0

\* One event carried no message, and the save of the user message failed for a
\* message that would have been answered.
C11_Witness ==
  \E i, j \in Tasks :
    /\ Done(i) /\ ~ task[i].event.hasMessage
    /\ task[j].fault = "saveUserMessage" /\ Answers(j)

\* C12: when the update that appends the participant fails, the task goes on:
\* it persists the user message, and it does not end with the persistence error;
\* if it makes no completion call it returns normally.
C12_ParticipantFailureSwallowed ==
  \A i \in Tasks :
    task[i].fault = "addParticipant"
    => /\ task[i].pc # "addParticipant"
       /\ task[i].result # PersistenceError
       /\ Done(i)
          => /\ task[i].userMessageId \in 1..Len(messages[task[i].conversation.id])
             /\ messages[task[i].conversation.id][task[i].userMessageId] =
                  UserMessage(task[i].conversation, task[i].parsedMessage)
             /\ task[i].completionCalls = 0 => task[i].result = "ok"

\* The participant update failed and the message was persisted, answered and sent.
C12_Witness ==
  \E i \in Tasks :
    /\ task[i].fault = "addParticipant"
    /\ Done(i) /\ task[i].result = "ok"
    /\ task[i].userMessageId # 0
    /\ task[i].completionCalls = 1 /\ task[i].sends = 1

\* The most recent message of the conversation of task i has no text content.
LastMessageWithoutText(i) ==
  LET stored == messages[task[i].conversation.id]
  IN stored = <<>> \/ ~ Truthy(stored[Len(stored)].content)

\* C13: when generateAndSendResponse finds that the most recent message has no
\* text content, it returns without error and changes nothing: no completion
\* call, no agent message, no send, and the collections stay as they are.
C13_NoTextNoResponse ==
  [][\A i \in Tasks :
       (/\ task[i].pc = "findLastMessage"
        /\ LastMessageWithoutText(i)
        /\ task'[i] # task[i]
        /\ task'[i].fault = task[i].fault)
       => /\ task'[i].pc = "done"
          /\ task'[i].result = "ok"
          /\ task'[i].completionCalls = 0
          /\ task'[i].agentMessageId = 0
          /\ task'[i].sends = 0
          /\ messages' = messages
          /\ conversations' = conversations]_vars

\* A task whose own message has text passed the gate, found a message without
\* text as the most recent one, and returned without answering.
C13_Witness ==
  \E i \in Tasks :
    /\ Done(i) /\ task[i].result = "ok" /\ task[i].fault = "none"
    /\ Answers(i)
    /\ Truthy(task[i].parsedMessage.content)
    /\ task[i].userMessageId # 0
    /\ task[i].lastUserMessage = 0
    /\ task[i].completionCalls = 0 /\ task[i].sends = 0

\* Task i handled a text in a private chat that had no conversation, on a channel
\* with an agent; no collaborator call failed, the backend returned no tool
\* calls, and no other task handled an event of that chat.
FreshPrivateText(i) ==
  /\ Done(i)
  /\ task[i].created
  /\ task[i].parsedMessage.chatType = "private"
  /\ Truthy(task[i].parsedMessage.content)
  /\ task[i].conversation.virtualAgentId # NoAgent
  /\ faults = 0
  /\ task[i].toolRounds = 0
  /\ \A j \in Tasks \ {i} : ~ SameThread(i, j)

\* C14: a text on a fresh private chat with an assigned agent, every call
\* succeeding and no tool calls: exactly one conversation for the chat (private,
\* open), one user message, one completion call, one agent message, one send.
C14_FreshPrivateChat ==
  \A i \in Tasks :
    FreshPrivateText(i)
    => LET c == task[i].conversation.id
       IN /\ \A d \in 1..Len(conversations) :
               conversations[d].externalChannelId =
                 task[i].parsedMessage.externalChannelId => d = c
          /\ conversations[c].type = "private"
          /\ conversations[c].status = "open"
          /\ Len(messages[c]) = 2
          /\ messages[c][1] = UserMessage(task[i].conversation, task[i].parsedMessage)
          /\ messages[c][2].authorRole = "agent"
          /\ task[i].completionCalls = 1
          /\ task[i].sends = 1

\* The scenario ran to its end: the reply was sent and the handler returned.
C14_Witness ==
  \E i \in Tasks :
    /\ FreshPrivateText(i)
    /\ task[i].result = "ok"
    /\ Truthy(messages[task[i].conversation.id][2].content)
    /\ messages[task[i].conversation.id][2].externalMessageId =
         SentMessageId(task[i].agentMessageId)

\* C15: when the model emitted tool calls while answering, the agent message
\* persisted for the reply carries a record of them.
C15_ToolCallsRecorded ==
  \A i \in Tasks :
    (task[i].agentMessageId # 0 /\ task[i].toolRounds > 0)
    => messages[task[i].conversation.id][task[i].agentMessageId].toolCalls # <<>>

\* C16: a conversation created by handleIncomingMessage has the channel's default
\* agent if one is set, otherwise the first agent of the tenant whose status is
\* active, otherwise no agent.
C16_DefaultAgentResolution ==
  LET active == { k \in 1..Len(agents) : agents[k].status = "active" }
      firstActive == IF active = {} THEN NoAgent
                     ELSE agents[CHOOSE k \in active : \A l \in active : k <= l].id
      expected == IF channel.defaultVirtualAgentId # NoAgent
                  THEN channel.defaultVirtualAgentId
                  ELSE firstActive
  IN \A i \in Tasks :
       task[i].created => conversations[task[i].conversation.id].virtualAgentId = expected

\* C17: the status of a conversation changes only along open -> paused,
\* paused -> open, open -> closed, paused -> closed and closed -> archived;
\* an archived conversation keeps its status.
C17_StatusTransitions ==
  [][\A c \in 1..Len(conversations) :
       \/ conversations'[c].status = conversations[c].status
       \/ <<conversations[c].status, conversations'[c].status>> \in
            { <<"open", "paused">>, <<"paused", "open">>, <<"open", "closed">>,
              <<"paused", "closed">>, <<"closed", "archived">> }]_vars

\* C18: every message persisted for a conversation increments the conversation's
\* message count, so that messageCount is the number of its messages.
C18_MessageCountFollowsMessages ==
  [][\A c \in 1..Len(messages) :
       Len(messages'[c]) = Len(messages[c]) + 1
       => conversations'[c].messageCount = conversations[c].messageCount + 1]_vars

\* The message carries none of the payloads receiveMessage recognises.
Unrecognised(message) ==
  /\ ~ Truthy(message.payload.text)
  /\ ~ message.payload.photo
  /\ ~ message.payload.voice

\* C19: receiveMessage fails on a message that carries none of the recognised
\* payloads: the task ends with an error and persists no message for it.
C19_UnrecognisedPayloadFails ==
  \A i \in Tasks :
    (task[i].event.hasMessage /\ Unrecognised(task[i].event.message))
    => /\ Done(i)
       /\ task[i].result \notin {"none", "ok"}
       /\ task[i].userMessageId = 0

\* C20: the configuration handed to the channel adapter holds the decrypted value
\* of the sensitive field: Decrypt of what ChannelsService stored.
C20_AdapterGetsDecryptedConfig ==
  \A i \in Tasks :
    task[i].channelConfig # <<>>
    => task[i].channelConfig.apiToken = Decrypt(channel.config.apiToken)

\* The client connections open to server serverName.
OpenTo(serverName) == { conn \in mcp.open : conn[2] = serverName }

\* C21: for every tool-server name, whatever the calls of connectToServer,
\* addServer, reconnectServer and disconnect and their interleaving, at most one
\* client connection is open, and an open connection is the one this.clients
\* holds for the name: no connect replaces or leaks a connection.
C21_OneConnectionPerServer ==
  \A serverName \in ServerNames :
    /\ Cardinality(OpenTo(serverName)) <= 1
    /\ \A conn \in OpenTo(serverName) : mcp.clients[serverName] = conn[1]

\* C23: for every discovered tool, decoding the function name built for it gives
\* back its server name and its tool name, so the call goes to the server that
\* exposed the tool.
C23_InvocationRoundTrip ==
  mcp.tool # <<>>
  => /\ mcp.invocation.matched
     /\ mcp.invocation.serverName = mcp.tool[1]
     /\ mcp.invocation.toolName = mcp.tool[2]

\* No call of a connection method is in flight.
McpQuiescent == \A c \in Callers : mcp.call[c].pc = "idle"

\* C28: after any calls of connectToServer, disconnect and disconnectAll,
\* including those that failed part-way, a server name has a client entry exactly
\* when it has a tools entry.
C28_ClientsMatchTools ==
  McpQuiescent
  => \A serverName \in ServerNames :
       (mcp.clients[serverName] # NoClient) <=> mcp.tools[serverName].present

\* The generation has called buildContext.
ContextBuilt == gen.pc # "idle"

\* C25: the context starts with the system prompt when one is configured, and is
\* followed by entries of only the `limit` most recent messages of the
\* conversation, oldest first: no entry of an older message, no entry before an
\* entry of an older message, each entry with the role and text of its message.
C25_ContextWindow ==
  ContextBuilt
  => LET ctx == gen.messages
         stored == messages[1]
         limit == ContextLimit(channel)
         prompt == SystemPrompt(conversations[1].virtualAgentId)
     IN /\ Truthy(prompt) => (ctx[1].role = "system" /\ ctx[1].content = prompt)
        /\ \A k \in 1..Len(ctx) : ctx[k].role = "system" => (k = 1 /\ Truthy(prompt))
        /\ \A k \in 1..Len(ctx) :
             ctx[k].id # 0
             => /\ ctx[k].id \in 1..Len(stored)
                /\ ctx[k].id > Len(stored) - limit
                /\ (ctx[k].role = "assistant") <=> (stored[ctx[k].id].authorRole = "agent")
                /\ ctx[k].role = "assistant" => ctx[k].content = stored[ctx[k].id].content
        /\ \A k, l \in 1..Len(ctx) :
             (k < l /\ ctx[k].id # 0 /\ ctx[l].id # 0) => ctx[k].id < ctx[l].id

\* Three messages are stored, the limit is 2 and a system prompt is configured:
\* the context holds the prompt and entries of the second and third message.
C25_Witness ==
  /\ gen.pc = "completion"
  /\ Len(messages[1]) = 3
  /\ ContextLimit(channel) = 2
  /\ gen.messages[1].role = "system"
  /\ \E k, l \in 1..Len(gen.messages) : gen.messages[k].id = 2 /\ gen.messages[l].id = 3

\* C24: the tool calls of the first response are handled one at a time in array
\* order, each finished before the next starts; the second completion call gets
\* the messages of the first call, then one assistant turn carrying the tool
\* calls, then one tool-result turn per call in the same order, each tagged with
\* the id of its call; a generation with tool calls returns only after that
\* second call, with its response.
C24_ToolCallsInOrder ==
  LET tcs == gen.toolCalls
      n == Len(tcs)
      first == Len(gen.messages)
      request == gen.finalRequest
      expectedLog == Flatten([k \in 1..n |-> << <<"start", tcs[k].id>>, <<"end", tcs[k].id>> >>])
  IN /\ Len(gen.log) <= Len(expectedLog)
     /\ \A j \in 1..Len(gen.log) : gen.log[j] = expectedLog[j]
     /\ request # <<>>
        => /\ gen.log = expectedLog
           /\ Len(request) = first + 1 + n
           /\ SubSeq(request, 1, first) = gen.messages
           /\ request[first + 1].role = "assistant"
           /\ request[first + 1].tool_calls = tcs
           /\ \A k \in 1..n :
                /\ request[first + 1 + k].role = "tool"
                /\ request[first + 1 + k].tool_call_id = tcs[k].id
     /\ (gen.pc = "done" /\ gen.result = "ok" /\ n > 0)
        => (request # <<>> /\ gen.response.toolCalls = <<>>)

\* Two different tool calls were handled, the second call was made and its
\* response returned.
C24_Witness ==
  /\ gen.pc = "done" /\ gen.result = "ok"
  /\ Len(gen.toolCalls) = 2
  /\ gen.toolCalls[1].name # gen.toolCalls[2].name
  /\ Len(gen.finalRequest) = Len(gen.messages) + 3
  /\ Truthy(gen.response.content)

\* The generation returned after a tool round.
ReturnedAfterTools == gen.pc = "done" /\ gen.result = "ok" /\ gen.finalRequest # <<>>

\* C27: after a tool round the token usage returned is, for prompt, completion
\* and total, the sum of the counts of the first and of the second call (a
\* missing count is 0).
C27_TokensAreSummed ==
  ReturnedAfterTools
  => /\ gen.tokens.prompt = gen.usage.prompt + gen.finalUsage.prompt
     /\ gen.tokens.completion = gen.usage.completion + gen.finalUsage.completion
     /\ gen.tokens.total = gen.usage.total + gen.finalUsage.total

\* The content blocks buildContext emitted for stored message id: none when the
\* message has no entry, one when its entry is a plain string (a single text
\* block), else the length of the entry's block array.
ContentBlocks(ctx, id) ==
  LET entries == { k \in 1..Len(ctx) : ctx[k].id = id }
  IN IF entries = {} THEN 0
     ELSE LET entry == ctx[CHOOSE k \in entries : TRUE]
          IN IF entry.blocks = 0 THEN 1 ELSE entry.blocks

\* C22: for a user message persisted with N attachments that is among the
\* messages fetched, buildContext emits between 1 and N+1 content blocks,
\* whatever attachments fail to be processed.
C22_ContentBlockCount ==
  ContextBuilt
  => \A id \in 1..Len(messages[1]) :
       (/\ id > Len(messages[1]) - ContextLimit(channel)
        /\ messages[1][id].authorRole = "user")
       => ContentBlocks(gen.messages, id) \in 1..(messages[1][id].attachments + 1)

\* C26: when buildContext produced the message being answered as the latest
\* history entry, the user message is not appended again: the list sent to the
\* backend ends with that entry.
C26_UserMessageOnce ==
  ContextBuilt
  => LET ctx == gen.messages
         history == { k \in 1..Len(ctx) : ctx[k].id # 0 }
     IN (/\ history # {}
         /\ gen.answered = Len(messages[1])
         /\ messages[1][gen.answered].authorRole = "user"
         /\ \E k \in history : ctx[k].id = gen.answered /\ \A l \in history : l <= k)
        => ctx[Len(ctx)].id = gen.answered

\* C29: the participant list of a conversation never holds two entries with the
\* same external identity id, whatever the interleaving of the invocations.
C29_NoDuplicateParticipant ==
  \A c \in 1..Len(conversations) :
    \A p, q \in 1..Len(conversations[c].participants) :
      conversations[c].participants[p] = conversations[c].participants[q] => p = q

\* Two invocations for messages of one new sender in the group both read the
\* list without the sender and both wrote their update.
C29_Witness ==
  \E i, j \in Tasks :
    /\ i # j
    /\ task[i].joined /\ task[j].joined
    /\ task[i].conversation.id = task[j].conversation.id
    /\ task[i].parsedMessage.authorId = task[j].parsedMessage.authorId
    /\ Len(conversations[task[i].conversation.id].participants) = 2

\* C30: when every external call eventually returns or fails, every
\* handleIncomingMessage invocation eventually completes, returning or failing
\* towards its caller, whatever the backend and the tools answer.
C30_EveryInvocationCompletes ==
  \A i \in Tasks : (task[i].pc # "idle") ~> (Done(i) /\ task[i].result # "none")

\* An invocation went through a tool round whose second response carried tool
\* calls again, and completed.
C30_Witness ==
  \E i \in Tasks :
    /\ Done(i) /\ task[i].result = "ok"
    /\ task[i].toolRounds > 0
    /\ task[i].completionCalls = 2
    /\ task[i].sends = 1
====
